---- MODULE Spec2Model ----
(***************************************************************************)
(* Open-addressing hash table of C/Hashtables/Open_Addressing               *)
(* (src/open_addressing.c, include/open_addressing.h), KEY_TYPE = int,     *)
(* VALUE_TYPE = int.                                                       *)
(*                                                                         *)
(* The C source has three kinds of undefined behaviour on its main paths.  *)
(* Each is a nondeterministic choice here:                                 *)
(*   - `x = x++` / `x = x--` (unsequenced modification of x): the build    *)
(*     either keeps the old value or stores the updated one; `build`       *)
(*     records which, for the whole run.                                   *)
(*   - try_downsize reads its local `prev_size` before any write: the      *)
(*     value read is the input g of Remove, any element of Garbage.        *)
(*   - delta[n] with n outside 0..29 reads past the array: the value read  *)
(*     is the same input g.                                                *)
(* A NULL dereference and an integer division by zero end the process      *)
(* (status "crashed"); exit(EXIT_FAILURE) ends it too (status "exited");   *)
(* a loop that cannot leave is status "hung"; after free_ht it is "freed".                              *)
(***************************************************************************)
EXTENDS Integers, Sequences, FiniteSets, TLC

VARIABLES
    self,       \* the struct hashtab the caller holds
    build,      \* what `x = x++` does in this build: "lost" or "applied"
    status,     \* "ok", "crashed", "exited", "hung" or "freed"
    last,       \* the last public call and what it returned
    present,    \* ghost: the keys inserted with HT_SUCCESS and not removed
                \* with HT_SUCCESS since, each with the value it was inserted with
    removed,    \* ghost: the keys a remove_ht has returned HT_SUCCESS for
    budget,     \* number of public calls still to be made
    teardown,   \* ghost: the destroyers given to free_ht and the calls it made
    walk,       \* a quadratic probe loop over a table without Empty slots:
                \* table_size, hash_index, i and the slots probed so far
    scan,       \* the sieve's next_prime(2^power): power, index, and whether
                \* it has returned index
    tp,         \* the transport solver's call: the problem and its locals
    primes,     \* the primality routine that runs: its locals
    overflow    \* what a signed int overflow does in this build: "wraps"
                \* (two's complement) or "traps" (-ftrapv, a sanitizer)

vars == <<self, build, status, last, present, removed, budget, teardown,
          walk, scan, tp, primes, overflow>>

\* ---------------------------------------------------------------- bounds

MaxKey == 3
MaxOps == 5
MaxGarbage == 3
MaxAlloc == 17
MaxStep == 5

\* the keys of Spec, and the larger key set of SpecFill, which fills a table
Keys == 1..MaxKey
FillKeys == 1..(MaxKey + 2)
Values == {10, 20}
\* calloc returns NULL for a request above MaxAlloc entries
HugeTarget == MaxAlloc + 1
\* what a read of an uninitialised or out-of-bounds uint32_t can give
Garbage == (0..MaxGarbage) \cup {HugeTarget}

\* ---------------------------------------------------------------- constants

HT_FAILURE == 1
HT_SUCCESS == 0
HT_KEY_EXISTS == -1
HT_NO_SPACE == -2
HT_KEY_NOT_FOUND == -3
HT_MEM_ERROR == -4
HT_INVALID_ARG == -5
HT_INVALID_STATE == -6

\* floats are kept as exact fractions <<numerator, denominator>>
DEFAULT_LOAD_FACTOR == <<1, 2>>
DEFAULT_MIN_LOAD_FACTOR == <<1, 4>>
DEFAULT_INACTIVE_FACTOR == <<1, 10>>
DEFAULT_SIZE_MAX == 1048576
DEFAULT_SIZE_MIN == 13

delta == <<1, 0, 1, 3, 1, 5, 3, 3, 1, 9, 7, 5, 3, 17, 27, 3, 1, 29, 3,
           21, 7, 17, 15, 9, 43, 35, 15, 29, 3, 11>>

\* (1 << n) + delta[n]; n outside the array reads whatever lies there
delta_prime(n, g) ==
    IF n \in 0..(Len(delta) - 1) THEN 2^n + delta[n + 1] ELSE g

\* ---------------------------------------------------------------- floats

\* (float)x of a size_t; a size_t that wrapped below 0 is kept negative
\* here and converts to a number above every ratio compared
ToFloat(x) == IF x < 0 THEN 1000000 ELSE x

\* (float)a / b < f,  >= f,  > f   for a fraction f and b > 0
RatioLT(a, b, f) == ToFloat(a) * f[2] < f[1] * b
RatioGE(a, b, f) == ToFloat(a) * f[2] >= f[1] * b
RatioGT(a, b, f) == ToFloat(a) * f[2] > f[1] * b

\* ---------------------------------------------------------------- x = x++

\* ht->f = ht->f++
SelfPostInc(x) == IF build = "applied" THEN x + 1 ELSE x
\* ht->f = ht->f--
SelfPostDec(x) == IF build = "applied" THEN x - 1 ELSE x

\* ---------------------------------------------------------------- hashing

RECURSIVE XorBits(_, _, _)
XorBits(a, b, n) ==
    IF n = 0 THEN 0
    ELSE (((a % 2) + (b % 2)) % 2) + 2 * XorBits(a \div 2, b \div 2, n - 1)

\* byte i (0 = lowest address) of the int key, little endian two's complement
KeyByte(key, i) ==
    IF key >= 0 THEN (key \div (256^i)) % 256
    ELSE 255 - (((-(key + 1)) \div (256^i)) % 256)

\* a 32-bit unsigned is <<high 16 bits, low 16 bits>>
FnvOffsetBasis == <<33052, 40389>>

\* hash ^= byte; hash *= 16777619  (mod 2^32; 16777619 = 256 * 2^16 + 403)
FnvStep(h, b) ==
    LET lo == h[2] - (h[2] % 256) + XorBits(h[2] % 256, b, 8)
        p == lo * 403
    IN  <<(h[1] * 403 + lo * 256 + (p \div 65536)) % 65536, p % 65536>>

\* the for loop over the sizeof(KEY_TYPE) = 4 key bytes, from byte i on
RECURSIVE FnvBytes(_, _, _)
FnvBytes(h, key, i) ==
    IF i >= 4 THEN h ELSE FnvBytes(FnvStep(h, KeyByte(key, i)), key, i + 1)

\* hash % size of a 32-bit hash kept as two 16-bit halves (size > 0)
ModSize(h, size) == (((h[1] % size) * (65536 % size)) + h[2]) % size

\* the modified FNV-1a of the key bytes, modulo size
default_hash_function(key, size) ==
    ModSize(FnvBytes(FnvOffsetBasis, key, 0), size)

\* the ends of int
INT_MAX == 2^30 + (2^30 - 1)
INT_MIN == (-INT_MAX) - 1

\* the keys of test_boundary_keys and test_zero_key_insertion
BoundaryKeys == {INT_MIN, INT_MAX, 0}

\* ht->hash, always the default here, tabulated once over the keys and the
\* table sizes calloc can deliver
HashTable ==
    [k \in FillKeys \cup BoundaryKeys |->
        [s \in 1..MaxAlloc |-> default_hash_function(k, s)]]

hash(key, size) == HashTable[key][size]

\* a - b does not fit an int: signed overflow
SubOverflows(a, b) ==
    \/ a >= 0 /\ b < 0 /\ a > INT_MAX + b
    \/ a < 0 /\ b > 0 /\ a < INT_MIN + b

\* a - b reduced modulo 2^32 into the range of int
WrappedSub(a, b) ==
    IF a >= 0 /\ b < 0 /\ a > INT_MAX + b
    THEN (a + INT_MIN) + (INT_MIN - b)
    ELSE IF a < 0 /\ b > 0 /\ a < INT_MIN + b
    THEN ((a - INT_MIN) + (INT_MAX - b)) + 1
    ELSE a - b

\* return a - b; what it returns when it returns
default_key_compare(a, b) == WrappedSub(a, b)

\* a - b overflows in a build that traps on it: the process is ended
key_compare_traps(a, b) == overflow = "traps" /\ SubOverflows(a, b)

\* what a probe search gives, in place of an index or a code, when the
\* comparison ended the process
Trapped == HT_INVALID_STATE - 1

\* ---------------------------------------------------------------- results

\* what an internal call leaves: the table, the return value, and whether it
\* returned ("ok") or the process crashed, exited or hung inside it
Res(ht, ret, st) == [ht |-> ht, ret |-> ret, st |-> st]

EmptyEntry == [flag |-> 0, key |-> 0, value |-> 0]

\* calloc(n, sizeof(HTentry)) succeeds
AllocSucceeds(n) == n <= MaxAlloc

\* ---------------------------------------------------------------- search

RECURSIVE linear_walk_search(_, _, _, _)
linear_walk_search(ht, key, hash_index, current_index) ==
    LET e == ht.table[current_index + 1]
        next == (current_index + 1) % ht.size
    IN  CASE e.flag = 0 -> HT_KEY_NOT_FOUND
          [] e.flag = 1 /\ key_compare_traps(e.key, key) -> Trapped
          [] e.flag = 1 /\ ~key_compare_traps(e.key, key)
               /\ default_key_compare(e.key, key) = 0 -> current_index
          [] OTHER -> IF next # hash_index
                      THEN linear_walk_search(ht, key, hash_index, next)
                      ELSE HT_KEY_NOT_FOUND

linear_probe_search(ht, key) ==
    linear_walk_search(ht, key, hash(key, ht.size), hash(key, ht.size))

\* the same loop walking by hash_index + i: every slot is probed
linear_probe(hash_index, i, table_size) == (hash_index + i) % table_size

\* probe_index = (hash_index + ((i + i * i) >> 1)) % table_size
quadratic_probe(hash_index, i, table_size) ==
    (hash_index + ((i + i * i) \div 2)) % table_size

RECURSIVE quadratic_walk_search(_, _, _, _)
quadratic_walk_search(ht, key, hash_index, i) ==
    LET probe_index == quadratic_probe(hash_index, i, ht.size)
        e == ht.table[probe_index + 1]
    IN  CASE e.flag = 0 -> HT_KEY_NOT_FOUND
          [] e.flag = 1 /\ key_compare_traps(e.key, key) -> Trapped
          [] e.flag = 1 /\ ~key_compare_traps(e.key, key)
               /\ default_key_compare(e.key, key) = 0 -> probe_index
          [] OTHER -> IF i + 1 < ht.size
                      THEN quadratic_walk_search(ht, key, hash_index, i + 1)
                      ELSE HT_KEY_NOT_FOUND

quadratic_probe_search(ht, key) ==
    quadratic_walk_search(ht, key, hash(key, ht.size), 0)

\* hash % 0 traps; table[i] of a NULL table traps
Traps(ht) == ht.size = 0 \/ ht.table_null

\* search_ht returning what its probe search gave
searched(ht, ret) ==
    IF ret = Trapped THEN Res(ht, HT_INVALID_STATE, "crashed")
    ELSE Res(ht, ret, "ok")

search_ht(ht, key) ==
    CASE ht.probing_method \notin {"LINEAR", "QUADRATIC"} ->
             Res(ht, HT_INVALID_STATE, "exited")
      [] ht.probing_method \in {"LINEAR", "QUADRATIC"} /\ Traps(ht) ->
             Res(ht, HT_INVALID_STATE, "crashed")
      [] ht.probing_method = "LINEAR" /\ ~Traps(ht) ->
             searched(ht, linear_probe_search(ht, key))
      [] ht.probing_method = "QUADRATIC" /\ ~Traps(ht) ->
             searched(ht, quadratic_probe_search(ht, key))

\* no index validation: the caller passes an index search_ht returned
fetch_ht(ht, index) == ht.table[index + 1].value

size_ht(ht) == ht.size

\* ---------------------------------------------------------------- insert

\* insert_entry without `flag = 1`: the key and the value are written into a
\* slot that stays Empty or Deleted
insert_entry_unmarked(ht, index, key, value) ==
    [ht EXCEPT !.table[index + 1].key = key,
               !.table[index + 1].value = value,
               !.active = SelfPostInc(ht.active)]

\* the insert_entry: label of both probe inserts
insert_entry(ht, index, key, value) ==
    [ht EXCEPT !.table[index + 1] = [flag |-> 1, key |-> key, value |-> value],
               !.active = SelfPostInc(ht.active)]

RECURSIVE linear_walk_insert(_, _, _, _, _)
linear_walk_insert(ht, key, value, hash_index, current_index) ==
    LET e == ht.table[current_index + 1]
        next == (current_index + 1) % ht.size
    IN  CASE e.flag = 0 ->
               Res(insert_entry([ht EXCEPT !.used = SelfPostInc(ht.used)],
                                current_index, key, value), HT_SUCCESS, "ok")
          [] e.flag = 2 ->
               Res(insert_entry(ht, current_index, key, value), HT_SUCCESS, "ok")
          [] OTHER -> IF next # hash_index
                      THEN linear_walk_insert(ht, key, value, hash_index, next)
                      ELSE Res(ht, HT_NO_SPACE, "ok")

linear_probe_insert(ht, key, value) ==
    IF Traps(ht) THEN Res(ht, HT_FAILURE, "crashed")
    ELSE linear_walk_insert(ht, key, value, hash(key, ht.size),
                            hash(key, ht.size))

\* the body of quadratic_probe_insert's loop at probe_index; case 1 is
\* `continue`, which jumps to the loop test without i++: the same occupied
\* slot is probed again for ever, so i never leaves 0
quadratic_walk_insert(ht, key, value, probe_index) ==
    CASE ht.table[probe_index + 1].flag = 0 ->
             Res(insert_entry([ht EXCEPT !.used = SelfPostInc(ht.used)],
                              probe_index, key, value), HT_SUCCESS, "ok")
      [] ht.table[probe_index + 1].flag = 2 ->
             Res(insert_entry(ht, probe_index, key, value), HT_SUCCESS, "ok")
      [] OTHER -> Res(ht, HT_NO_SPACE, "hung")

quadratic_probe_insert(ht, key, value) ==
    IF Traps(ht) THEN Res(ht, HT_FAILURE, "crashed")
    ELSE quadratic_walk_insert(ht, key, value,
                               (hash(key, ht.size) + ((0 + 0 * 0) \div 2))
                                   % ht.size)

\* insert_ht's switch: any result of the probe insert but HT_SUCCESS is
\* returned as HT_FAILURE
probe_status(r) ==
    IF r.st = "ok" /\ r.ret # HT_SUCCESS THEN Res(r.ht, HT_FAILURE, "ok") ELSE r

probe_insert(ht, key, value) ==
    IF ht.probing_method = "LINEAR"
    THEN probe_status(linear_probe_insert(ht, key, value))
    ELSE probe_status(quadratic_probe_insert(ht, key, value))

RECURSIVE insert_ht(_, _, _, _), rehash(_, _, _), replay(_, _, _, _, _)

\* insert_ht after its rehash returned r: delta_idx = delta_idx++, then the
\* probe insert
insert_grown(r, key, value) ==
    IF r.st # "ok" THEN r
    ELSE probe_insert([r.ht EXCEPT !.delta_idx = SelfPostInc(r.ht.delta_idx)],
                      key, value)

\* insert_ht without the HT_KEY_EXISTS return of an insert of a key found
insert_searched_unchecked(ht, key, value, g, s) ==
    IF s.st # "ok" THEN s
    ELSE IF RatioGE(ht.used + 1, ht.size, ht.load_factor)
    THEN insert_grown(rehash([ht EXCEPT !.prev_size = ht.size],
                             delta_prime(ht.delta_idx + 1, g), g), key, value)
    ELSE probe_insert(ht, key, value)

\* insert_ht with the grow test ahead of the HT_KEY_EXISTS return
insert_searched_growing(ht, key, value, g, s) ==
    IF s.st # "ok" THEN s
    ELSE IF RatioGE(ht.used + 1, ht.size, ht.load_factor)
    THEN IF s.ret # HT_KEY_NOT_FOUND
         THEN Res(rehash([ht EXCEPT !.prev_size = ht.size],
                         delta_prime(ht.delta_idx + 1, g), g).ht,
                  HT_KEY_EXISTS, "ok")
         ELSE insert_grown(rehash([ht EXCEPT !.prev_size = ht.size],
                                  delta_prime(ht.delta_idx + 1, g), g),
                           key, value)
    ELSE IF s.ret # HT_KEY_NOT_FOUND THEN Res(ht, HT_KEY_EXISTS, "ok")
    ELSE probe_insert(ht, key, value)

\* insert_ht after its search_ht returned s
insert_searched(ht, key, value, g, s) ==
    IF s.st # "ok" THEN s
    ELSE IF s.ret # HT_KEY_NOT_FOUND THEN Res(ht, HT_KEY_EXISTS, "ok")
    ELSE IF RatioGE(ht.used + 1, ht.size, ht.load_factor)
    THEN insert_grown(rehash([ht EXCEPT !.prev_size = ht.size],
                             delta_prime(ht.delta_idx + 1, g), g), key, value)
    ELSE probe_insert(ht, key, value)

insert_ht(ht, key, value, g) ==
    insert_searched(ht, key, value, g, search_ht(ht, key))

\* rehash's loop after the insert_ht of entry i returned r: a failed insert is
\* only reported on stderr
replay_next(r, old_table, i, old_size, g) ==
    IF r.st # "ok" THEN r ELSE replay(r.ht, old_table, i + 1, old_size, g)

\* the for loop of rehash from index i on
replay(ht, old_table, i, old_size, g) ==
    IF i >= old_size THEN Res(ht, HT_SUCCESS, "ok")
    ELSE IF old_table[i + 1].flag = 1
    THEN replay_next(insert_ht(ht, old_table[i + 1].key,
                               old_table[i + 1].value, g),
                     old_table, i, old_size, g)
    ELSE replay(ht, old_table, i + 1, old_size, g)

\* calloc(target, sizeof(HTentry)): zeroed entries, or NULL
new_table(target) ==
    IF AllocSucceeds(target) THEN [i \in 1..target |-> EmptyEntry] ELSE <<>>

\* rehash without its replay loop: the new table stays empty
rehash_forgetting(ht, target, g) ==
    IF ht.size > 0 /\ ht.table_null THEN Res(ht, HT_FAILURE, "crashed")
    ELSE Res([ht EXCEPT !.table = new_table(target),
                        !.table_null = ~AllocSucceeds(target),
                        !.size = target, !.active = 0,
                        !.rehashes = ht.rehashes + 1],
             HT_SUCCESS, "ok")

rehash(ht, target, g) ==
    IF ht.size > 0 /\ ht.table_null THEN Res(ht, HT_FAILURE, "crashed")
    ELSE replay([ht EXCEPT !.table = new_table(target),
                           !.table_null = ~AllocSucceeds(target),
                           !.size = target, !.active = 0,
                           !.rehashes = ht.rehashes + 1],
                ht.table, 0, ht.size, g)

\* ---------------------------------------------------------------- remove

\* the shrink condition of try_downsize
downsize_wanted(ht) ==
    RatioGT(ht.used - ht.active, ht.size, ht.inactive_factor)
    \/ RatioLT(ht.active, ht.size, ht.min_load_factor)

\* try_downsize after rehash(ht, prev_size) returned r: delta_idx = delta_idx--
downsize_done(r) ==
    IF r.st # "ok" THEN r
    ELSE Res([r.ht EXCEPT !.delta_idx = SelfPostDec(r.ht.delta_idx)],
             HT_SUCCESS, "ok")

\* prev_size, the local, is read before it is written: g
try_downsize(ht, g) ==
    IF downsize_wanted(ht)
    THEN IF RatioLT(ht.active, ht.prev_size, ht.load_factor)
         THEN downsize_done(rehash(ht, g, g))
         ELSE IF g <= ht.min_size THEN rehash(ht, ht.size, g)
         ELSE Res(ht, HT_SUCCESS, "ok")
    ELSE Res(ht, HT_SUCCESS, "ok")

\* the slot of key marked Empty instead of Deleted
tombstone_emptying(ht, key_index) ==
    [ht EXCEPT !.table[key_index + 1].flag = 0,
               !.active = SelfPostDec(ht.active)]

\* the slot of key marked deleted and active counted down
tombstone(ht, key_index) ==
    [ht EXCEPT !.table[key_index + 1].flag = 2,
               !.active = SelfPostDec(ht.active)]

\* remove_ht ignores what try_downsize returns
removed_status(d) == Res(d.ht, HT_SUCCESS, d.st)

\* remove_ht after its search_ht returned s
remove_searched(ht, g, s) ==
    IF s.st # "ok" THEN s
    ELSE IF s.ret < 0 THEN Res(ht, HT_KEY_NOT_FOUND, "ok")
    ELSE removed_status(try_downsize(tombstone(ht, s.ret), g))

remove_ht(ht, key, g) == remove_searched(ht, g, search_ht(ht, key))

\* ---------------------------------------------------------------- init

\* init_ht(0, 0, 0, 0, 0, NULL, NULL, probing_method): 0 asks for the default
DefaultArgs(probing_method) ==
    [max_size |-> 0, min_size |-> 0, load_factor |-> <<0, 1>>,
     min_load_factor |-> <<0, 1>>, inactive_factor |-> <<0, 1>>,
     probing_method |-> probing_method]

init_ht(a) ==
    [ table |-> [i \in 1..(2^1 + delta[1 + 1]) |-> EmptyEntry],
      table_null |-> FALSE,
      size |-> 2^1 + delta[1 + 1],
      used |-> 0,
      active |-> 0,
      delta_idx |-> 1,
      rehashes |-> 0,
      prev_size |-> 2^1 + delta[1 + 1],
      max_size |-> IF a.max_size = 0 THEN DEFAULT_SIZE_MAX ELSE a.max_size,
      min_size |-> IF a.min_size = 0 THEN DEFAULT_SIZE_MIN ELSE a.min_size,
      load_factor |-> IF a.load_factor[1] = 0 THEN DEFAULT_LOAD_FACTOR
                      ELSE a.load_factor,
      min_load_factor |-> IF a.min_load_factor[1] = 0
                          THEN DEFAULT_MIN_LOAD_FACTOR ELSE a.min_load_factor,
      inactive_factor |-> IF a.inactive_factor[1] = 0
                          THEN DEFAULT_INACTIVE_FACTOR ELSE a.inactive_factor,
      probing_method |-> a.probing_method ]

\* ---------------------------------------------------------------- actions

\* no probe loop and no sieve scan is running
NoWalk == [table_size |-> 1, hash_index |-> 0, i |-> 1, visited |-> {0}]
NoScan == [power |-> 0, index |-> 2, returned |-> TRUE]
NoProblem == [method |-> "none", pc |-> "returned"]
NoTest == [fn |-> "none", pc |-> "returned"]

\* the state after init_ht(a) for some a of args
InitTable(builds, args, calls) ==
    /\ build \in builds
    /\ \E a \in args : self = init_ht(a)
    /\ status = "ok"
    /\ last = [op |-> "init", key |-> 0, value |-> 0, ret |-> HT_SUCCESS,
               had |-> FALSE, rehashes |-> 0]
    /\ present = [k \in {} |-> 0]
    /\ removed = {}
    /\ budget = calls
    /\ teardown = [freekey |-> FALSE, freeval |-> FALSE, calls |-> <<>>]

\* the keys of these calls lie too close together for a - b to overflow, so
\* what an overflow does is no choice here
InitArgs(builds, args, calls) ==
    /\ InitTable(builds, args, calls)
    /\ walk = NoWalk
    /\ scan = NoScan
    /\ overflow = "wraps"
    /\ tp = NoProblem
    /\ primes = NoTest

InitWith(builds, methods, calls) ==
    InitArgs(builds, {DefaultArgs(p) : p \in methods}, calls)

Init == InitWith({"lost", "applied"}, {"LINEAR", "QUADRATIC"}, MaxOps)

\* the public call op(key, value) came to r; one that did not return leaves
\* the struct as the caller last saw it; `had` tells whether the ghost map held
\* the key before the call, `rehashes` how many times rehash ran inside the call
\* (the ghost field rehashes of the struct counts them and starts each call at 0)
Finish(r, op, key, value) ==
    /\ self' = IF r.st = "ok" THEN [r.ht EXCEPT !.rehashes = 0] ELSE self
    /\ status' = r.st
    /\ last' = [op |-> op, key |-> key, value |-> value, ret |-> r.ret,
                had |-> key \in DOMAIN present, rehashes |-> r.ht.rehashes]
    /\ budget' = budget - 1
    /\ UNCHANGED <<build, teardown, walk, scan, tp, primes, overflow>>

Succeeded(r) == r.st = "ok" /\ r.ret = HT_SUCCESS

Inserted(r, key, value) ==
    /\ Finish(r, "insert", key, value)
    /\ present' = IF Succeeded(r)
                  THEN [k \in DOMAIN present \cup {key} |->
                           IF k = key THEN value ELSE present[k]]
                  ELSE present
    /\ UNCHANGED removed

Insert(key, value, g) ==
    /\ status = "ok" /\ budget > 0
    /\ Inserted(insert_ht(self, key, value, g), key, value)

Removed(r, key) ==
    /\ Finish(r, "remove", key, 0)
    /\ present' = IF Succeeded(r)
                  THEN [k \in DOMAIN present \ {key} |-> present[k]]
                  ELSE present
    /\ removed' = IF Succeeded(r) THEN removed \cup {key} ELSE removed

Remove(key, g) ==
    /\ status = "ok" /\ budget > 0
    /\ Removed(remove_ht(self, key, g), key)

Search(key) ==
    /\ status = "ok" /\ budget > 0
    /\ Finish(search_ht(self, key), "search", key, 0)
    /\ UNCHANGED <<present, removed>>

\* the values an insert_ht can read from outside delta: none while the step
\* it grows to is inside the array
InsertGarbage ==
    IF self.delta_idx + 1 \in 0..(Len(delta) - 1) THEN {0} ELSE Garbage

\* try_downsize reads prev_size when the key was found at s and the shrink
\* condition holds after the slot is marked
reads_prev_size(s) ==
    s.st = "ok" /\ s.ret >= 0 /\ downsize_wanted(tombstone(self, s.ret))

\* the values a remove_ht of key can read from the uninitialised prev_size
RemoveGarbage(key) ==
    IF reads_prev_size(search_ht(self, key)) THEN Garbage ELSE {0}

Next ==
    \/ \E k \in Keys, v \in Values : \E g \in InsertGarbage : Insert(k, v, g)
    \/ \E k \in Keys : \E g \in RemoveGarbage(k) : Remove(k, g)
    \/ \E k \in Keys : Search(k)

Spec == Init /\ [][Next]_vars

\* A table that is filled, as the tests fill it: linear probing, the build
\* that loses `x = x++` (so the table stays at 5 slots), enough keys for every
\* slot, each key k inserted with the value 10 * k, and two more calls than
\* Spec makes
InitFill == InitWith({"lost"}, {"LINEAR"}, MaxOps + 2)

NextFill ==
    \/ \E k \in FillKeys : \E g \in InsertGarbage : Insert(k, 10 * k, g)
    \/ \E k \in FillKeys : \E g \in RemoveGarbage(k) : Remove(k, g)

SpecFill == InitFill /\ [][NextFill]_vars

\* ---------------------------------------------------------------- claims

Occupied(ht) == {i \in 0..(ht.size - 1) : ht.table[i + 1].flag = 1}

\* search_ht returns the index of a slot whose value is v
FoundWith(ht, s, v) == s.st = "ok" /\ s.ret >= 0 /\ fetch_ht(ht, s.ret) = v

Finds(ht, key, v) == FoundWith(ht, search_ht(ht, key), v)

\* search_ht returns HT_KEY_NOT_FOUND
NotFound(s) == s.st = "ok" /\ s.ret = HT_KEY_NOT_FOUND

Misses(ht, key) == NotFound(search_ht(ht, key))

\* C1: when insert_ht(k, v) of a key that was not present returns HT_SUCCESS,
\* search_ht(k) returns an index i >= 0 and fetch_ht(i) is v, under linear and
\* quadratic probing, also when the insert grew the table.
RoundTrip ==
    (status = "ok" /\ last.op = "insert" /\ last.ret = HT_SUCCESS)
        => Finds(self, last.key, last.value)

\* an insert that grew a table holding two keys has just returned HT_SUCCESS
RoundTripWitness ==
    /\ status = "ok" /\ last.op = "insert" /\ last.ret = HT_SUCCESS
    /\ ~last.had
    /\ self.size = 11 /\ Cardinality(Occupied(self)) = 3
    /\ Finds(self, last.key, last.value)

\* C2: while no key has been removed, every key inserted with HT_SUCCESS is
\* found by search_ht and fetch_ht gives the value it was inserted with, also
\* after the inserts grew the table.
GrowthPreservesContents ==
    (status = "ok" /\ removed = {})
        => \A k \in DOMAIN present : Finds(self, k, present[k])

\* three keys were inserted, the third grew the table from 5 to 11 slots and
\* replayed the first two
GrowthWitness ==
    /\ status = "ok" /\ removed = {} /\ self.size = 11
    /\ \A k \in Keys : k \in DOMAIN present /\ Finds(self, k, present[k])

\* C3: insert_ht(k, v2) while k is present (inserted with HT_SUCCESS and not
\* removed since) returns HT_KEY_EXISTS and k still has the value v1.
NoDuplicates ==
    (status = "ok" /\ last.op = "insert" /\ last.had)
        => /\ last.ret = HT_KEY_EXISTS
           /\ last.key \in DOMAIN present
           /\ Finds(self, last.key, present[last.key])

\* C4: after remove_ht(k) returned HT_SUCCESS and until k is inserted again,
\* search_ht(k) returns HT_KEY_NOT_FOUND and so does a second remove_ht(k).
RemovedIsAbsent ==
    status = "ok" =>
        \A k \in removed \ DOMAIN present :
            /\ Misses(self, k)
            /\ \A g \in Garbage : NotFound(remove_ht(self, k, g))

\* C5: after inserts followed by removals of some of the keys, every key that
\* was not removed is still found by search_ht with its value.
RemovalKeepsOthers ==
    (status = "ok" /\ last.op = "remove" /\ last.ret = HT_SUCCESS)
        => \A k \in DOMAIN present : Finds(self, k, present[k])

\* C6: after each completed operation, active equals the number of Occupied
\* slots.
ActiveCountsOccupied ==
    status = "ok" => self.active = Cardinality(Occupied(self))

\* C7: after every completed operation, 0 <= active <= used <= size.
CounterOrder ==
    status = "ok" =>
        0 <= self.active /\ self.active <= self.used /\ self.used <= self.size

\* C8: after any operation, init included, min_size <= size_ht() <= max_size.
CapacityBound ==
    status = "ok" =>
        self.min_size <= size_ht(self) /\ size_ht(self) <= self.max_size

\* C9: after every completed operation, size = 2^delta_idx + delta[delta_idx].
SizeMatchesStep ==
    status = "ok" =>
        /\ self.delta_idx \in 0..(Len(delta) - 1)
        /\ self.size = 2^self.delta_idx + delta[self.delta_idx + 1]

\* C10: after every completed operation, active / size < load_factor.
BelowLoadFactor ==
    status = "ok" =>
        self.size > 0 /\ RatioLT(self.active, self.size, self.load_factor)

\* ---------------------------------------------------------------- C11, C12

\* Quadratic probing with keys that share a home slot (keys 1 and MaxKey + 2
\* both hash to slot 2 of the 5-slot table), as test_high_collision_scenario
\* sets out to do
InitQuad == InitWith({"lost", "applied"}, {"QUADRATIC"}, MaxOps)

NextQuad ==
    \/ \E k \in FillKeys : \E g \in InsertGarbage : Insert(k, 10 * k, g)
    \/ \E k \in FillKeys : Search(k)

SpecQuad == InitQuad /\ [][NextQuad]_vars

\* C11: search_ht and insert_ht examine at most size() slots and then return:
\* no call stays in its probe loop for ever.
ProbeTerminates == status # "hung"

\* C12: from a default-initialised table, insert_ht of a key that is not
\* present returns HT_SUCCESS, never HT_NO_SPACE or HT_FAILURE, also when
\* keys collide on their home slot.
AbsentInsertSucceeds ==
    (last.op = "insert" /\ ~last.had)
        => status = "ok" /\ last.ret = HT_SUCCESS

\* ---------------------------------------------------------------- C13

\* init_ht(2, 0, 1.0, 0, 0, NULL, NULL, probing_method) of
\* test_insert_into_full_table_should_fail
FullArgs(probing_method) ==
    [DefaultArgs(probing_method) EXCEPT !.max_size = 2, !.load_factor = <<1, 1>>]

InitFull ==
    InitArgs({"lost", "applied"},
             {FullArgs(p) : p \in {"LINEAR", "QUADRATIC"}}, MaxOps)

\* the test only inserts
NextFull == \E k \in FillKeys : \E g \in InsertGarbage : Insert(k, 10 * k, g)

SpecFull == InitFull /\ [][NextFull]_vars

\* C13: with max_size 2 and load_factor 1.0 the table does not grow past
\* max_size, and once it holds as many keys as it has slots the insert_ht of
\* an absent key returns HT_NO_SPACE.
FullTableNoSpace ==
    status = "ok" =>
        /\ self.size <= self.max_size
        /\ (last.op = "insert" /\ ~last.had
               /\ Cardinality(DOMAIN present \ {last.key}) >= self.max_size)
              => last.ret = HT_NO_SPACE

\* ---------------------------------------------------------------- C14

\* rehash of ht came to r, reported HT_MEM_ERROR and left ht as it was
FailedCleanly(ht, r) ==
    /\ r.st = "ok" /\ r.ret = HT_MEM_ERROR
    /\ [r.ht EXCEPT !.rehashes = ht.rehashes] = ht

\* C14: a rehash whose allocation fails reports HT_MEM_ERROR and leaves the
\* table exactly as before, so no completed operation leaves the table with
\* the NULL array of a failed allocation.
RehashAllOrNothing ==
    status = "ok" =>
        /\ ~self.table_null
        /\ \A g \in Garbage : FailedCleanly(self, rehash(self, HugeTarget, g))

\* ---------------------------------------------------------------- C15

\* the indices inside the table whose slot is Empty or Deleted
NotOccupied(ht) == {i \in 0..(ht.size - 1) : ht.table[i + 1].flag # 1}

\* C15: fetch_ht(index) of a slot that is not Occupied (Empty, or the slot of
\* a key that has since been removed) fails with HT_INVALID_ARG instead of
\* returning what the slot holds.
FetchChecksSlot ==
    (status = "ok" /\ ~Traps(self))
        => \A i \in NotOccupied(self) : fetch_ht(self, i) = HT_INVALID_ARG

\* ---------------------------------------------------------------- C16, C19

\* a call made with self == NULL: search_ht reads self->probing_method first
\* thing, and insert_ht and remove_ht start by calling search_ht(self, key);
\* none of them tests self, so the NULL pointer is dereferenced
null_call == Res(self, HT_INVALID_STATE, "crashed")

\* search_ht(NULL, key), insert_ht(NULL, key, value) or remove_ht(NULL, key)
NullCall(op, key, value) ==
    /\ status = "ok" /\ budget > 0
    /\ Finish(null_call, op, key, value)
    /\ UNCHANGED <<present, removed>>

NullOps == {"search(NULL)", "insert(NULL)", "remove(NULL)"}

\* the calls of Spec, on tables of every ProbingMethod of the header, and the
\* calls of test_null_input
InitMisuse ==
    InitWith({"lost", "applied"}, {"LINEAR", "QUADRATIC", "DOUBLE_HASHING"},
             MaxOps - 1)

NextMisuse ==
    \/ \E k \in Keys, v \in Values : \E g \in InsertGarbage : Insert(k, v, g)
    \/ \E k \in Keys : \E g \in RemoveGarbage(k) : Remove(k, g)
    \/ \E k \in Keys : Search(k)
    \/ \E op \in NullOps : NullCall(op, 1, 100)

SpecMisuse == InitMisuse /\ [][NextMisuse]_vars

\* C16: insert_ht, search_ht and remove_ht called with a NULL handle return
\* HT_INVALID_ARG.
NullHandleRejected ==
    last.op \in NullOps => status = "ok" /\ last.ret = HT_INVALID_ARG

\* C19: on a table configured with DOUBLE_HASHING, search_ht and insert_ht
\* return HT_INVALID_STATE to the caller; the process is not ended.
UnsupportedMethodReported ==
    (self.probing_method = "DOUBLE_HASHING" /\ last.op \in {"search", "insert"})
        => status = "ok" /\ last.ret = HT_INVALID_STATE

\* ---------------------------------------------------------------- C17

\* one call free_ht makes: freekey(arg) or freeval(arg) for the slot, or the
\* free(self->table) that follows the loop
Call(fn, arg, slot) == [fn |-> fn, arg |-> arg, slot |-> slot]

\* the calls for an entry with flag 1 and for any other entry
slot_calls_stale(e, i, freekey, freeval) ==
    IF e.flag # 0
    THEN (IF freekey THEN <<Call("freekey", e.key, i)>> ELSE <<>>)
         \o (IF freeval THEN <<Call("freeval", e.value, i)>> ELSE <<>>)
    ELSE <<>>

\* the body of free_ht's loop for the entry e of slot i
slot_calls(e, i, freekey, freeval) ==
    IF e.flag = 1
    THEN (IF freekey THEN <<Call("freekey", e.key, i)>> ELSE <<>>)
         \o (IF freeval THEN <<Call("freeval", e.value, i)>> ELSE <<>>)
    ELSE <<>>

\* free_ht's loop from slot i on
RECURSIVE destroy_from(_, _, _, _)
destroy_from(ht, i, freekey, freeval) ==
    IF i >= ht.size THEN <<>>
    ELSE slot_calls(ht.table[i + 1], i, freekey, freeval)
         \o destroy_from(ht, i + 1, freekey, freeval)

\* free_ht(self, freekey, freeval) with self # NULL; freekey and freeval tell
\* whether the destroyer is given; the loop reads table[i] of a NULL table
free_ht(ht, freekey, freeval) ==
    IF (freekey \/ freeval) /\ ht.size > 0 /\ ht.table_null
    THEN [st |-> "crashed", ret |-> HT_FAILURE, calls |-> <<>>]
    ELSE [st |-> "freed", ret |-> HT_SUCCESS,
          calls |-> (IF freekey \/ freeval
                     THEN destroy_from(ht, 0, freekey, freeval) ELSE <<>>)
                    \o <<Call("free", 0, ht.size)>>]

Freed(r, freekey, freeval) ==
    /\ teardown' = [freekey |-> freekey, freeval |-> freeval, calls |-> r.calls]
    /\ status' = r.st
    /\ last' = [op |-> "free", key |-> 0, value |-> 0, ret |-> r.ret,
                had |-> FALSE, rehashes |-> 0]
    /\ budget' = budget - 1
    /\ UNCHANGED <<self, build, present, removed, walk, scan, tp, primes,
                   overflow>>

Free(freekey, freeval) ==
    /\ status = "ok" /\ budget > 0
    /\ Freed(free_ht(self, freekey, freeval), freekey, freeval)

\* tearDown after the calls of Spec
InitFree == InitWith({"lost", "applied"}, {"LINEAR", "QUADRATIC"}, MaxOps - 1)

NextFree ==
    \/ \E k \in Keys, v \in Values : \E g \in InsertGarbage : Insert(k, v, g)
    \/ \E k \in Keys : \E g \in RemoveGarbage(k) : Remove(k, g)
    \/ \E freekey \in BOOLEAN, freeval \in BOOLEAN : Free(freekey, freeval)

SpecFree == InitFree /\ [][NextFree]_vars

\* the slots free_ht can look at
Slots(ht) == IF ht.table_null THEN {} ELSE 0..(ht.size - 1)

\* the positions in teardown.calls of the calls of fn for slot i
CallsOf(fn, i) ==
    {n \in DOMAIN teardown.calls :
        teardown.calls[n].fn = fn /\ teardown.calls[n].slot = i}

\* fn, when given, was called once with arg for an Occupied slot i, and not
\* at all otherwise
OncePerOccupied(fn, given, i, arg) ==
    /\ Cardinality(CallsOf(fn, i)) =
           (IF given /\ self.table[i + 1].flag = 1 THEN 1 ELSE 0)
    /\ \A n \in CallsOf(fn, i) : teardown.calls[n].arg = arg

\* C17: free_ht calls each destroyer it was given exactly once for the key or
\* value of every Occupied slot, never for an Empty or Deleted slot, and
\* releases the slot array only after that.
TeardownDestroysOccupied ==
    status = "freed" =>
        /\ \A i \in Slots(self) :
              /\ OncePerOccupied("freekey", teardown.freekey, i,
                                 self.table[i + 1].key)
              /\ OncePerOccupied("freeval", teardown.freeval, i,
                                 self.table[i + 1].value)
        /\ \A n \in DOMAIN teardown.calls :
              teardown.calls[n].fn = "free" <=> n = Len(teardown.calls)

\* free_ht with both destroyers on a table with an Occupied and a Deleted
\* slot
TeardownWitness ==
    /\ status = "freed" /\ teardown.freekey /\ teardown.freeval
    /\ \E i \in Slots(self) : self.table[i + 1].flag = 2
    /\ \E i \in Slots(self) : self.table[i + 1].flag = 1
    /\ Len(teardown.calls) = 2 * Cardinality(Occupied(self)) + 1

\* ---------------------------------------------------------------- C18

\* Both probing methods and both builds, with keys that share a home slot,
\* inserted and removed
InitProbe == InitWith({"lost", "applied"}, {"LINEAR", "QUADRATIC"}, MaxOps)

NextProbe ==
    \/ \E k \in FillKeys : \E g \in InsertGarbage : Insert(k, 10 * k, g)
    \/ \E k \in FillKeys : \E g \in RemoveGarbage(k) : Remove(k, g)

SpecProbe == InitProbe /\ [][NextProbe]_vars

\* attempt n of the probe sequence of ht that starts at hash_index: the
\* index expressions of the two search loops
probe(ht, hash_index, n) ==
    IF ht.probing_method = "LINEAR" THEN (hash_index + n) % ht.size
    ELSE quadratic_probe(hash_index, n, ht.size)

\* attempt n from the home slot of key lands on slot i, and no attempt before
\* it lands on an Empty slot
ReachedAt(ht, key, i, n) ==
    /\ probe(ht, hash(key, ht.size), n) = i
    /\ \A m \in 0..(n - 1) :
          ht.table[probe(ht, hash(key, ht.size), m) + 1].flag # 0

\* search_ht of key returns the index i
FoundAt(s, i) == s.st = "ok" /\ s.ret = i

\* C18: after every completed operation, every Occupied slot is reached by
\* the probe sequence from its key's hash index within size attempts with no
\* Empty slot before it, and search_ht of its key returns it.
OccupiedReachable ==
    (status = "ok" /\ ~Traps(self)) =>
        \A i \in Occupied(self) :
            /\ \E n \in 0..(self.size - 1) :
                  ReachedAt(self, self.table[i + 1].key, i, n)
            /\ FoundAt(search_ht(self, self.table[i + 1].key), i)

\* with linear probing an Occupied slot is away from its key's home slot,
\* where a removed key has left a Deleted slot
ReachableWitness ==
    /\ status = "ok" /\ ~Traps(self) /\ self.probing_method = "LINEAR"
    /\ \E i \in Occupied(self) :
          /\ hash(self.table[i + 1].key, self.size) # i
          /\ self.table[hash(self.table[i + 1].key, self.size) + 1].flag = 2
          /\ FoundAt(search_ht(self, self.table[i + 1].key), i)

\* ---------------------------------------------------------------- C20

\* this step is a completed insert_ht of a key that was not present
AbsentInsertStep == status' = "ok" /\ last'.op = "insert" /\ ~last'.had

\* the condition of insert_ht's grow branch, in the state before the call
should_grow(ht) == RatioGE(ht.used + 1, ht.size, ht.load_factor)

\* C20: an insert_ht of an absent key that finds (used + 1) / size >=
\* load_factor leaves the table at the capacity of the next step and the step
\* advanced by exactly 1; one that does not find it changes neither size nor
\* step.
GrowTransition ==
    [][AbsentInsertStep =>
          IF should_grow(self)
          THEN /\ self'.delta_idx = self.delta_idx + 1
               /\ self'.size = delta_prime(self.delta_idx + 1, 0)
          ELSE /\ self'.delta_idx = self.delta_idx
               /\ self'.size = self.size]_vars

\* ---------------------------------------------------------------- shrinking

\* the guard of try_downsize's shrink branch
shrink_guard(ht) == RatioLT(ht.active, ht.prev_size, ht.load_factor)

\* try_downsize takes its shrink branch on ht
shrinks(ht) == downsize_wanted(ht) /\ shrink_guard(ht)

\* remove_ht's search returned the slot s, and try_downsize takes its shrink
\* branch once the slot is marked
ShrinkFires(s) == s.st = "ok" /\ s.ret >= 0 /\ shrinks(tombstone(self, s.ret))

\* the step is a remove_ht that returned HT_SUCCESS
RemoveStep == status' = "ok" /\ last'.op = "remove" /\ last'.ret = HT_SUCCESS

Tombstones(ht) == {i \in Slots(ht) : ht.table[i + 1].flag = 2}

KeysOf(ht) == {ht.table[i + 1].key : i \in Occupied(ht)}

\* C21: a successful remove_ht whose try_downsize takes the shrink branch
\* leaves the table at the capacity of the step before, the step lowered by
\* exactly 1, no Deleted slot, and the Occupied keys of before without the
\* removed one.
ShrinkTransition ==
    [][(RemoveStep /\ ShrinkFires(search_ht(self, last'.key))) =>
          /\ self'.delta_idx = self.delta_idx - 1
          /\ self'.size = delta_prime(self.delta_idx - 1, 0)
          /\ Tombstones(self') = {}
          /\ KeysOf(self') = KeysOf(self) \ {last'.key}]_vars

\* the step is a remove_ht that returned HT_SUCCESS and left a smaller table
ShrinkStep == RemoveStep /\ self'.size < self.size

\* C22: a remove_ht shrinks the table only to a capacity for which
\* active / capacity < load_factor, so a step that leaves a smaller table
\* leaves one in which active, and the number of Occupied slots it counts,
\* is below load_factor * size.
ShrinkGuard ==
    [][ShrinkStep =>
          /\ RatioLT(self'.active, self'.size, self'.load_factor)
          /\ RatioLT(Cardinality(Occupied(self')), self'.size,
                     self'.load_factor)]_vars

\* ---------------------------------------------------------------- counters

Written(ht) == {i \in Slots(ht) : ht.table[i + 1].flag # 0}

\* C23: after every completed call used is the number of slots that are not
\* Empty (Occupied or Deleted), and after a call in which rehash ran used
\* equals active.
UsedCountsWritten ==
    status = "ok" =>
        /\ self.used = Cardinality(Written(self))
        /\ last.rehashes > 0 => self.used = self.active

\* ---------------------------------------------------------------- frames

\* ht with the slot search_ht returned as s marked Deleted and active one less
Marked(ht, s) ==
    [ht EXCEPT !.table[s.ret + 1].flag = 2, !.active = ht.active - 1]

RemovedInPlace(s) == s.ret \in Occupied(self) /\ self' = Marked(self, s)

\* C24: a successful remove_ht whose try_downsize does not take the shrink
\* branch turns the slot of the key from Occupied to Deleted and lowers active
\* by 1; used, size, delta_idx and every other slot stay as they were.
RemoveFrame ==
    [][(RemoveStep /\ ~ShrinkFires(search_ht(self, last'.key))) =>
          RemovedInPlace(search_ht(self, last'.key))]_vars

\* the step is an insert_ht that returned HT_SUCCESS
InsertStep == status' = "ok" /\ last'.op = "insert" /\ last'.ret = HT_SUCCESS

\* attempt n of key's probe sequence is the first that lands on a slot that is
\* not Occupied
FirstFreeAt(ht, key, n) ==
    /\ ht.table[probe(ht, hash(key, ht.size), n) + 1].flag # 1
    /\ \A m \in 0..(n - 1) :
          ht.table[probe(ht, hash(key, ht.size), m) + 1].flag = 1

\* ht with (key, value) written Occupied into slot i, active one more, and
\* used one more when the slot was Empty
Placed(ht, i, key, value) ==
    [ht EXCEPT !.table[i + 1] = [flag |-> 1, key |-> key, value |-> value],
               !.active = ht.active + 1,
               !.used = IF ht.table[i + 1].flag = 0 THEN ht.used + 1
                        ELSE ht.used]

PlacedAtFirstFree(ht, key, value) ==
    \E n \in 0..(ht.size - 1) :
        /\ FirstFreeAt(ht, key, n)
        /\ self' = Placed(ht, probe(ht, hash(key, ht.size), n), key, value)

\* C25: a successful insert_ht raises active by 1, and one during which rehash
\* did not run writes (key, value) into the first slot of the key's probe
\* sequence that is Empty or Deleted, raises used by 1 exactly when that slot
\* was Empty, and changes nothing else.
InsertPlacement ==
    [][InsertStep =>
          /\ self'.active = self.active + 1
          /\ last'.rehashes = 0 =>
                 PlacedAtFirstFree(self, last'.key, last'.value)]_vars

\* ---------------------------------------------------------------- slots

\* flag 0 is Empty, 1 Occupied, 2 Deleted: what an insert or a remove does to
\* the slot it writes
SlotMoves == {<<0, 1>>, <<1, 2>>, <<2, 1>>}

\* the step is a completed call during which rehash did not run
QuietStep == status' = "ok" /\ last'.rehashes = 0

SlotKept(a, b, i) ==
    \/ b.table[i + 1].flag = a.table[i + 1].flag
    \/ <<a.table[i + 1].flag, b.table[i + 1].flag>> \in SlotMoves

\* C26: in a call during which rehash does not run the slot array keeps its
\* size and every slot either keeps its state or goes Empty -> Occupied,
\* Occupied -> Deleted or Deleted -> Occupied; no slot becomes Empty and no
\* Empty slot becomes Deleted.
SlotStateMachine ==
    [][QuietStep =>
          /\ self'.size = self.size
          /\ \A i \in Slots(self) : SlotKept(self, self', i)]_vars

\* a remove_ht during which rehash did not run has left a Deleted slot
SlotWitness ==
    /\ status = "ok" /\ last.op = "remove" /\ last.ret = HT_SUCCESS
    /\ last.rehashes = 0
    /\ Tombstones(self) # {}

\* ---------------------------------------------------------------- coverage

\* the capacities (1 << n) + delta[n] of the steps 2..MaxStep: 5, 11, 17, ...
\* (steps 0 and 1 both give 2)
OddPrimeCapacities == {delta_prime(n, 0) : n \in 2..MaxStep}

\* a quadratic probe loop about to start, on a table of an odd prime capacity
\* and from any home slot
InitCoverage ==
    /\ InitTable({"applied"}, {DefaultArgs("QUADRATIC")}, 0)
    /\ scan = NoScan
    /\ overflow = "wraps"
    /\ tp = NoProblem
    /\ primes = NoTest
    /\ \E n \in OddPrimeCapacities : \E h \in 0..(n - 1) :
          walk = [table_size |-> n, hash_index |-> h, i |-> 0, visited |-> {}]

\* one pass of the do-while of quadratic_probe_search over a slot that does
\* not end the loop (Deleted, or Occupied by another key): probe, then i++
ProbeNext ==
    /\ walk.i < walk.table_size
    /\ walk' = [walk EXCEPT
                  !.visited = @ \cup {quadratic_probe(walk.hash_index, walk.i,
                                                      walk.table_size)},
                  !.i = @ + 1]
    /\ UNCHANGED <<self, build, status, last, present, removed, budget,
                   teardown, scan, tp, primes, overflow>>

NextCoverage == ProbeNext

SpecCoverage == InitCoverage /\ [][NextCoverage]_vars

\* the loop has made its table_size probes
WalkDone == walk.i = walk.table_size

\* C27: on a table of an odd prime capacity the table_size probes
\* (hash_index + i(i+1)/2) mod table_size, i = 0 .. table_size - 1, land on
\* (table_size + 1) / 2 distinct slots only, so some slot is never probed.
ProbeCoverage ==
    WalkDone =>
        /\ Cardinality(walk.visited) = (walk.table_size + 1) \div 2
        /\ \E slot \in 0..(walk.table_size - 1) : slot \notin walk.visited

\* the loop has run to its end on the 11-slot table from home slot 8
CoverageWitness ==
    WalkDone /\ walk.table_size = 11 /\ walk.hash_index = 8

\* ---------------------------------------------------------------- planner

MAX_POWER == 29
SIEVE_LIMIT == 2^(MAX_POWER + 1)

\* the largest p of lo..hi with p * p <= n (lo * lo <= n)
RECURSIVE LastRoot(_, _, _)
LastRoot(n, lo, hi) ==
    IF lo >= hi THEN lo
    ELSE IF ((lo + hi + 1) \div 2) * ((lo + hi + 1) \div 2) <= n
    THEN LastRoot(n, (lo + hi + 1) \div 2, hi)
    ELSE LastRoot(n, lo, ((lo + hi + 1) \div 2) - 1)

\* the bits after init_bit_sieve alone: every index but 0 and 1 is set
is_prime_bit_unsieved(index) == index <= SIEVE_LIMIT /\ index >= 2

\* the bit of index after bitwise_sieve_of_eratosthenes: cleared for 0 and 1
\* and for every multiple >= p * p of a p whose bit was set when the outer
\* loop came to it, that is for every index with a divisor p, p * p <= index
is_prime_bit(index) ==
    /\ index <= SIEVE_LIMIT
    /\ index >= 2
    /\ \A p \in 2..LastRoot(index, 1, 2^(MAX_POWER \div 2 + 1)) :
          index % p # 0

\* next_prime(sieve, 1U << power) is entered, for a power delta has an entry for
InitPlanner ==
    /\ InitTable({"applied"}, {DefaultArgs("LINEAR")}, 0)
    /\ walk = NoWalk
    /\ overflow = "wraps"
    /\ tp = NoProblem
    /\ primes = NoTest
    /\ \E power \in 0..(Len(delta) - 1) :
          scan = [power |-> power, index |-> 2^power, returned |-> FALSE]

\* one pass of next_prime's for loop: return index if its bit is set, else
\* index++
ScanNext ==
    /\ ~scan.returned
    /\ scan.index < SIEVE_LIMIT
    /\ scan' = IF is_prime_bit(scan.index)
               THEN [scan EXCEPT !.returned = TRUE]
               ELSE [scan EXCEPT !.index = @ + 1]
    /\ UNCHANGED <<self, build, status, last, present, removed, budget,
                   teardown, walk, tp, primes, overflow>>

NextPlanner == ScanNext

SpecPlanner == InitPlanner /\ [][NextPlanner]_vars

\* C28: for every step i of 0..29 the first prime at or above 2^i is
\* 2^i + delta[i], so that number is prime and delta[i] is the least offset
\* that makes it so; and the capacities 2^i + delta[i] never decrease with i.
CapacitySequence ==
    /\ scan.index <= delta_prime(scan.power, 0)
    /\ scan.returned => scan.index = delta_prime(scan.power, 0)
    /\ \A i \in 0..(Len(delta) - 2) :
          delta_prime(i, 0) <= delta_prime(i + 1, 0)

\* the scan from 2^14 has returned, 27 above where it started
SequenceWitness ==
    scan.returned /\ scan.power = 14 /\ scan.index = 2^14 + 27

\* ---------------------------------------------------------------- initial state

\* every option of the struct has the default of open_addressing.h
HasDefaults(ht) ==
    /\ ht.load_factor = DEFAULT_LOAD_FACTOR
    /\ ht.min_load_factor = DEFAULT_MIN_LOAD_FACTOR
    /\ ht.inactive_factor = DEFAULT_INACTIVE_FACTOR
    /\ ht.min_size = DEFAULT_SIZE_MIN
    /\ ht.max_size = DEFAULT_SIZE_MAX

\* C29: what init_ht returns, called with 0 for every option, is a table at
\* step 0 of the capacity sequence, of that capacity, with every slot Empty,
\* used = active = 0 and every option at its default.
InitialState ==
    last.op = "init" =>
        /\ self.delta_idx = 0
        /\ self.size = delta_prime(0, 0)
        /\ ~self.table_null /\ Len(self.table) = self.size
        /\ Written(self) = {}
        /\ self.used = 0 /\ self.active = 0
        /\ HasDefaults(self)

\* ---------------------------------------------------------------- uniqueness

\* ht->match reports the keys of slots i and j equal
SameKey(ht, i, j) ==
    default_key_compare(ht.table[i + 1].key, ht.table[j + 1].key) = 0

\* C30: after every completed call no two Occupied slots hold keys that the
\* equality function reports as equal.
UniqueKeys ==
    (status = "ok" /\ ~self.table_null) =>
        \A i \in Occupied(self) : \A j \in Occupied(self) \ {i} :
            ~SameKey(self, i, j)

\* a key removed earlier has just been inserted again, next to another key
UniqueWitness ==
    /\ status = "ok" /\ last.op = "insert" /\ last.ret = HT_SUCCESS
    /\ last.key \in removed
    /\ Cardinality(Occupied(self)) >= 2

\* ---------------------------------------------------------------- reads

\* fetch_ht(self, index) for an index of the array
Fetch(index) ==
    /\ status = "ok" /\ budget > 0
    /\ Finish(Res(self, fetch_ht(self, index), "ok"), "fetch", index, 0)
    /\ UNCHANGED <<present, removed>>

\* size_ht(self)
Size ==
    /\ status = "ok" /\ budget > 0
    /\ Finish(Res(self, size_ht(self), "ok"), "size", 0, 0)
    /\ UNCHANGED <<present, removed>>

InitReads == InitWith({"lost", "applied"}, {"LINEAR", "QUADRATIC"}, MaxOps - 1)

NextReads ==
    \/ \E k \in Keys, v \in Values : \E g \in InsertGarbage : Insert(k, v, g)
    \/ \E k \in Keys : \E g \in RemoveGarbage(k) : Remove(k, g)
    \/ \E k \in Keys : Search(k)
    \/ \E i \in Slots(self) : Fetch(i)
    \/ Size

SpecReads == InitReads /\ [][NextReads]_vars

\* the step is a call that returned, and was a search_ht, fetch_ht or size_ht,
\* an insert_ht that returned HT_KEY_EXISTS or a remove_ht that returned
\* HT_KEY_NOT_FOUND
ReadOnlyStep ==
    /\ status' = "ok"
    /\ \/ last'.op \in {"search", "fetch", "size"}
       \/ last'.op = "insert" /\ last'.ret = HT_KEY_EXISTS
       \/ last'.op = "remove" /\ last'.ret = HT_KEY_NOT_FOUND

\* C31: an insert_ht that returns HT_KEY_EXISTS, a remove_ht that returns
\* HT_KEY_NOT_FOUND and every search_ht, fetch_ht and size_ht leave the slot
\* array, size, used, active and delta_idx as they were, and run no rehash.
ReadsKeepTable ==
    [][ReadOnlyStep => (self' = self /\ last'.rehashes = 0)]_vars

\* a duplicate insert_ht was rejected on a table at its grow threshold
ReadsWitness ==
    /\ status = "ok" /\ last.op = "insert" /\ last.ret = HT_KEY_EXISTS
    /\ should_grow(self)
    /\ Tombstones(self) # {}

\* ---------------------------------------------------------------- resizing

\* the step is an insert_ht or a remove_ht that returned
UpdateStep == status' = "ok" /\ last'.op \in {"insert", "remove"}

\* the capacities one step below, at, and one step above the step of ht
NearCapacities(ht) ==
    {ht.size, delta_prime(ht.delta_idx - 1, ht.size),
     delta_prime(ht.delta_idx + 1, ht.size)}

\* C32: one insert_ht or remove_ht enters rehash at most once (the replay
\* inside rehash never rehashes again), moves delta_idx by at most 1 and
\* leaves size at the capacity of the step before, the same step or the next.
OneRehashPerCall ==
    [][UpdateStep =>
          /\ last'.rehashes <= 1
          /\ self'.delta_idx \in (self.delta_idx - 1)..(self.delta_idx + 1)
          /\ self'.size \in NearCapacities(self)]_vars

\* C33: a remove_ht never leaves a larger table than it found and an insert_ht
\* never a smaller one.
ResizeDirection ==
    [][UpdateStep =>
          IF last'.op = "remove" THEN self'.size <= self.size
          ELSE self'.size >= self.size]_vars

\* ---------------------------------------------------------------- step range

\* a wider range of what the uninitialised prev_size can read: table sizes on
\* which an insert_ht after a shrink does not grow at once
WideGarbage == 0..(2 * MaxGarbage + 1)

RemoveWideGarbage(key) ==
    IF reads_prev_size(search_ht(self, key)) THEN WideGarbage ELSE {0}

InitSteps == InitWith({"lost", "applied"}, {"LINEAR"}, MaxOps)

NextSteps ==
    \/ \E k \in Keys : \E g \in InsertGarbage : Insert(k, 10 * k, g)
    \/ \E k \in Keys : \E g \in RemoveWideGarbage(k) : Remove(k, g)

SpecSteps == InitSteps /\ [][NextSteps]_vars

\* n is an index of the delta array
InDelta(n) == n \in 0..(Len(delta) - 1)

\* C34: delta_idx stays an index of delta (0..29) across every insert_ht and
\* remove_ht, the grow target is read at an index of delta (delta_idx + 1),
\* and so is the next shrink target try_downsize reads after it has shrunk
\* (delta_idx - 1).
StepInRange ==
    [][UpdateStep =>
          /\ InDelta(self'.delta_idx)
          /\ (last'.op = "insert" /\ ~last'.had /\ should_grow(self))
                 => InDelta(self.delta_idx + 1)
          /\ (last'.op = "remove" /\ last'.ret = HT_SUCCESS
                 /\ ShrinkFires(search_ht(self, last'.key)))
                 => InDelta(self'.delta_idx - 1)]_vars

\* ---------------------------------------------------------------- boundary keys

\* the keys of the boundary tests next to ordinary keys
MixedKeys == BoundaryKeys \cup Keys

\* the values the tests insert INT_MIN, INT_MAX and 0 with
BoundaryValue(k) ==
    IF k = INT_MIN THEN -1
    ELSE IF k = INT_MAX THEN 1
    ELSE IF k = 0 THEN 999 ELSE 10 * k

InitBoundary ==
    /\ InitTable({"lost", "applied"},
                 {DefaultArgs("LINEAR"), DefaultArgs("QUADRATIC")}, MaxOps - 1)
    /\ walk = NoWalk
    /\ scan = NoScan
    /\ overflow \in {"wraps", "traps"}
    /\ tp = NoProblem
    /\ primes = NoTest

NextBoundary ==
    \/ \E k \in MixedKeys : \E g \in InsertGarbage :
          Insert(k, BoundaryValue(k), g)
    \/ \E k \in MixedKeys : Search(k)

SpecBoundary == InitBoundary /\ [][NextBoundary]_vars

\* C35: INT_MIN, INT_MAX and 0 can be inserted next to other keys and are
\* then found with their own values; no call is ended by the comparison of
\* two keys, and the comparison returns 0 exactly for equal keys, also when
\* a - b does not fit an int.
BoundaryKeysKept ==
    /\ status # "crashed"
    /\ status = "ok" =>
          \A k \in BoundaryKeys \cap DOMAIN present :
              Finds(self, k, present[k])
    /\ \A a \in MixedKeys : \A b \in MixedKeys :
          (default_key_compare(a, b) = 0) <=> (a = b)

\* ---------------------------------------------------------------- transport

MaxUnits == 2
MaxCost == 2
MAX_ITERATIONS == 1000

\* the numbers of supply and of demand points typed in
Sizes == {1, 2}

\* a TransportProblem as main reads it: vectors and matrix indexed from 0
Problems ==
    UNION {[supply_size : {m}, demand_size : {n},
            supply : [0..(m - 1) -> 0..MaxUnits],
            demand : [0..(n - 1) -> 0..MaxUnits],
            cost_matrix : [0..(m - 1) -> [0..(n - 1) -> 0..MaxCost]]] :
           <<m, n>> \in Sizes \X Sizes}

Rows(p) == 0..(p.supply_size - 1)
Cols(p) == 0..(p.demand_size - 1)

\* vector[0] + ... + vector[size - 1]
RECURSIVE total(_, _)
total(vector, size) ==
    IF size = 0 THEN 0 ELSE total(vector, size - 1) + vector[size - 1]

\* the problem with a dummy demand point of the excess supply and a zero-cost
\* column
dummy_demand(p, units) ==
    [p EXCEPT !.demand_size = @ + 1,
              !.demand = [j \in 0..p.demand_size |->
                            IF j < p.demand_size THEN p.demand[j] ELSE units],
              !.cost_matrix = [i \in Rows(p) |-> [j \in 0..p.demand_size |->
                            IF j < p.demand_size THEN p.cost_matrix[i][j]
                            ELSE 0]]]

\* the problem with a dummy supply point of the excess demand and a zero-cost
\* row
dummy_supply(p, units) ==
    [p EXCEPT !.supply_size = @ + 1,
              !.supply = [i \in 0..p.supply_size |->
                            IF i < p.supply_size THEN p.supply[i] ELSE units],
              !.cost_matrix = [i \in 0..p.supply_size |-> [j \in Cols(p) |->
                            IF i < p.supply_size THEN p.cost_matrix[i][j]
                            ELSE 0]]]

balance(p, total_supply, total_demand) ==
    IF total_supply > total_demand
    THEN dummy_demand(p, total_supply - total_demand)
    ELSE IF total_demand > total_supply
    THEN dummy_supply(p, total_demand - total_supply)
    ELSE p

balance_transport_problem(p) ==
    balance(p, total(p.supply, p.supply_size), total(p.demand, p.demand_size))

\* a solver entered with p, before its allocation loop: supply and demand are
\* its copies of p's, results is zeroed; row_done, col_done, supply_left, cell
\* and iteration are the locals of the methods that have them (iteration is
\* only printed by the other two and is left out of their steps)
entered(method, p) ==
    [method |-> method, problem |-> p,
     supply |-> p.supply, demand |-> p.demand,
     row_done |-> [i \in Rows(p) |-> FALSE],
     col_done |-> [j \in Cols(p) |-> FALSE],
     results |-> [i \in Rows(p) |-> [j \in Cols(p) |-> 0]],
     total_cost |-> 0, i |-> 0, j |-> 0,
     supply_left |-> total(p.supply, p.supply_size),
     cell |-> <<0, 0, 0, 0>>, iteration |-> 0, pc |-> "loop"]

\* (supply < demand) ? supply : demand, always the supply left
allocation_of_supply(supply, demand) == supply

\* (supply < demand) ? supply : demand
allocation(supply, demand) == IF supply < demand THEN supply ELSE demand

\* lines 51-52 and 62-63: the allocation is written and taken off both sides
north_west_allocate(t, q) ==
    [t EXCEPT !.results[t.i][t.j] = q,
              !.total_cost = @ + q * t.problem.cost_matrix[t.i][t.j],
              !.supply[t.i] = @ - q,
              !.demand[t.j] = @ - q]

\* lines 65-69: one row down or one column right, never past the last
north_west_advance(t) ==
    IF t.supply[t.i] = 0 /\ t.i < t.problem.supply_size - 1
    THEN [t EXCEPT !.i = @ + 1]
    ELSE IF t.demand[t.j] = 0 /\ t.j < t.problem.demand_size - 1
    THEN [t EXCEPT !.j = @ + 1]
    ELSE t

\* one test of the while condition and, where it holds, one pass of the body
north_west_corner_method(t) ==
    IF t.i < t.problem.supply_size /\ t.j < t.problem.demand_size
    THEN north_west_advance(
             north_west_allocate(t, allocation(t.supply[t.i], t.demand[t.j])))
    ELSE [t EXCEPT !.pc = "returned"]

\* the loops of find_min_cost_cell from cell k = i * demand_size + j on;
\* <<r, c>> at the end
RECURSIVE find_min_cost_cell(_, _, _, _, _)
find_min_cost_cell(t, k, min_cost, r, c) ==
    IF k = t.problem.supply_size * t.problem.demand_size
    THEN <<r, c>>
    ELSE IF /\ ~t.row_done[k \div t.problem.demand_size]
            /\ ~t.col_done[k % t.problem.demand_size]
            /\ t.problem.cost_matrix[k \div t.problem.demand_size]
                                    [k % t.problem.demand_size] < min_cost
    THEN find_min_cost_cell(t, k + 1,
             t.problem.cost_matrix[k \div t.problem.demand_size]
                                  [k % t.problem.demand_size],
             k \div t.problem.demand_size, k % t.problem.demand_size)
    ELSE find_min_cost_cell(t, k + 1, min_cost, r, c)

\* lines 98-121 of least_cost.c
least_cost_allocate(t, min_row, min_col, q) ==
    [t EXCEPT !.results[min_row][min_col] = q,
              !.total_cost = @ + q * t.problem.cost_matrix[min_row][min_col],
              !.supply[min_row] = @ - q,
              !.demand[min_col] = @ - q,
              !.row_done[min_row] = IF t.supply[min_row] - q = 0 THEN TRUE
                                    ELSE @,
              !.col_done[min_col] = IF t.demand[min_col] - q = 0 THEN TRUE
                                    ELSE @]

least_cost_cell(t, found) ==
    IF found[1] # -1 /\ found[2] # -1
    THEN least_cost_allocate(t, found[1], found[2],
             allocation(t.supply[found[1]], t.demand[found[2]]))
    ELSE [t EXCEPT !.pc = "returned"]

\* one pass of while (1): break when no cell is found
least_cost_method(t) ==
    least_cost_cell(t, find_min_cost_cell(t, 0, INT_MAX, -1, -1))

\* diff's loop from i on; res[0..2] of the source are [1..3] of the tuple
RECURSIVE diff(_, _, _, _, _, _, _)
RECURSIVE diff_cost(_, _, _, _, _, _, _, _)
diff(t, index, is_row, i, min1, min2, min_p) ==
    IF i = (IF is_row THEN t.problem.demand_size ELSE t.problem.supply_size)
    THEN <<IF min2 # INT_MAX THEN min2 - min1 ELSE 0, min1, min_p>>
    ELSE IF (IF is_row THEN t.col_done[i] ELSE t.row_done[i])
    THEN diff(t, index, is_row, i + 1, min1, min2, min_p)
    ELSE diff_cost(t, index, is_row, i, min1, min2, min_p,
                   IF is_row THEN t.problem.cost_matrix[index][i]
                   ELSE t.problem.cost_matrix[i][index])

diff_cost(t, index, is_row, i, min1, min2, min_p, c) ==
    IF c < min1 THEN diff(t, index, is_row, i + 1, c, min1, i)
    ELSE IF c < min2 THEN diff(t, index, is_row, i + 1, min1, c, min_p)
    ELSE diff(t, index, is_row, i + 1, min1, min2, min_p)

\* max_penalty's loop from i on; res[0..3] of the source are [1..4] of the
\* tuple: row, column, minimum cost, penalty
RECURSIVE max_penalty(_, _, _, _, _, _, _)
RECURSIVE max_penalty_of(_, _, _, _, _, _, _, _)
max_penalty(t, is_row, i, pc, pm, mc, md) ==
    IF i = (IF is_row THEN t.problem.supply_size ELSE t.problem.demand_size)
    THEN (IF is_row THEN <<pm, pc, mc, md>> ELSE <<pc, pm, mc, md>>)
    ELSE IF (IF is_row THEN t.row_done[i] ELSE t.col_done[i])
    THEN max_penalty(t, is_row, i + 1, pc, pm, mc, md)
    ELSE max_penalty_of(t, is_row, i, pc, pm, mc, md,
                        diff(t, i, is_row, 0, INT_MAX, INT_MAX, -1))

max_penalty_of(t, is_row, i, pc, pm, mc, md, res2) ==
    IF res2[1] > md
    THEN max_penalty(t, is_row, i + 1, res2[3], i, res2[2], res2[1])
    ELSE max_penalty(t, is_row, i + 1, pc, pm, mc, md)

\* res1 of next_cell: the row of the greatest penalty
row_penalty(t) == max_penalty(t, TRUE, 0, -1, -1, -1, INT_MIN)

\* res2 of next_cell: the column of the greatest penalty
col_penalty(t) == max_penalty(t, FALSE, 0, -1, -1, -1, INT_MIN)

\* lines 127-138 of vogels.c
next_cell(res1, res2) ==
    IF res1[4] = res2[4]
    THEN (IF res1[3] < res2[3] THEN res1 ELSE res2)
    ELSE IF res1[4] > res2[4] THEN res2
    ELSE res1

\* lines 198-210 of vogels.c
vogels_allocate(t, cell, r, c, q) ==
    [t EXCEPT !.iteration = @ + 1,
              !.cell = cell,
              !.demand[c] = @ - q,
              !.col_done[c] = IF t.demand[c] - q = 0 THEN TRUE ELSE @,
              !.supply[r] = @ - q,
              !.row_done[r] = IF t.supply[r] - q = 0 THEN TRUE ELSE @,
              !.results[r][c] = q,
              !.supply_left = @ - q,
              !.total_cost = @ + q * t.problem.cost_matrix[r][c]]

\* int q = (demand[c] <= supply[r]) ? demand[c] : supply[r];
vogels_cell(t, cell) ==
    vogels_allocate(t, cell, cell[1], cell[2],
        IF t.demand[cell[2]] <= t.supply[cell[1]] THEN t.demand[cell[2]]
        ELSE t.supply[cell[1]])

\* one test of the while condition and, where it holds, one pass of the body
vogels_approximation_method(t) ==
    IF t.supply_left > 0 /\ t.iteration < MAX_ITERATIONS
    THEN vogels_cell(t, next_cell(row_penalty(t), col_penalty(t)))
    ELSE [t EXCEPT !.pc = "returned"]

\* main has balanced the problem typed in and calls the method chosen
InitTransport ==
    /\ InitTable({"applied"}, {DefaultArgs("LINEAR")}, 0)
    /\ walk = NoWalk
    /\ scan = NoScan
    /\ overflow = "wraps"
    /\ primes = NoTest
    /\ \E method \in {"nw", "lc", "vam"} : \E p \in Problems :
          tp = entered(method, balance_transport_problem(p))

Solving(method, t) ==
    /\ tp.method = method
    /\ tp.pc = "loop"
    /\ tp' = t
    /\ UNCHANGED <<self, build, status, last, present, removed, budget,
                   teardown, walk, scan, primes, overflow>>

NorthWest == Solving("nw", north_west_corner_method(tp))
LeastCost == Solving("lc", least_cost_method(tp))
Vogels == Solving("vam", vogels_approximation_method(tp))

NextTransport == NorthWest \/ LeastCost \/ Vogels

\* a loop that can take a pass takes it
SpecTransport ==
    InitTransport /\ [][NextTransport]_vars /\ WF_vars(NextTransport)

\* C36: north_west_corner_method returns, for every problem with at least one
\* supply and one demand point.
NorthWestReturns ==
    (tp.method = "nw") ~> (tp.pc = "returned")

\* the lines the method has marked done
Closed(t) ==
    Cardinality({i \in Rows(t.problem) : t.row_done[i]})
        + Cardinality({j \in Cols(t.problem) : t.col_done[j]})

Balanced(p) ==
    /\ total(p.supply, p.supply_size) = total(p.demand, p.demand_size)
    /\ \A i \in Rows(p) : p.supply[i] >= 0
    /\ \A j \in Cols(p) : p.demand[j] >= 0

RowSum(t, i) == total(t.results[i], t.problem.demand_size)
ColSum(t, j) ==
    total([i \in Rows(t.problem) |-> t.results[i][j]], t.problem.supply_size)

\* the sum over the cells of results[i][j] * cost_matrix[i][j]
PlanCost(t) ==
    total([i \in Rows(t.problem) |->
              total([j \in Cols(t.problem) |->
                        t.results[i][j] * t.problem.cost_matrix[i][j]],
                    t.problem.demand_size)],
          t.problem.supply_size)

Feasible(t) ==
    /\ \A i \in Rows(t.problem) : RowSum(t, i) = t.problem.supply[i]
    /\ \A j \in Cols(t.problem) : ColSum(t, j) = t.problem.demand[j]
    /\ t.total_cost = PlanCost(t)

HigherPenalty(res1, res2, cell) ==
    /\ res1[4] > res2[4] => cell = res1
    /\ res2[4] > res1[4] => cell = res2
    /\ res1[4] = res2[4] /\ res1[3] < res2[3] => cell = res1
    /\ res1[4] = res2[4] /\ res2[3] < res1[3] => cell = res2

\* the least cost of the open cells of row cell[1] (is_row) or column cell[2]
\* is cell[3], the cost of the cell itself
MinimumOfLine(t, is_row, cell) ==
    /\ t.problem.cost_matrix[cell[1]][cell[2]] = cell[3]
    /\ is_row => \A j \in Cols(t.problem) :
           ~t.col_done[j] => t.problem.cost_matrix[cell[1]][j] >= cell[3]
    /\ ~is_row => \A i \in Rows(t.problem) :
           ~t.row_done[i] => t.problem.cost_matrix[i][cell[2]] >= cell[3]

\* a pass of the Vogel loop that allocates
VogelPass == tp.method = "vam" /\ tp'.iteration = tp.iteration + 1

\* C38: the cell a pass of the Vogel loop allocates at is the minimum-cost open
\* cell of the line, row or column, whose penalty is the higher of the maximum
\* row penalty and the maximum column penalty; of two equal penalties, of the
\* line whose minimum cost is lower.
VogelSelection ==
    [][VogelPass =>
          /\ MinimumOfLine(tp, TRUE, row_penalty(tp))
          /\ MinimumOfLine(tp, FALSE, col_penalty(tp))
          /\ HigherPenalty(row_penalty(tp), col_penalty(tp), tp'.cell)
          /\ tp'.results[tp'.cell[1]][tp'.cell[2]] > 0
                 => tp'.supply_left < tp.supply_left]_vars

\* ---------------------------------------------------------------- primality

MaxCandidate == 120

\* uint8_t miller_rabin_base[], with 2 as its only witness
miller_rabin_base_of_two == <<2>>

miller_rabin_base == <<2, 3, 5, 7, 11, 13, 17, 19, 31, 37>>

\* ((__int128)a * b) % mod for a, b < mod: the exact product reduced, built
\* from doublings so that nothing computed on the way exceeds 2 * mod
RECURSIVE mul_mod(_, _, _)
mul_mod(a, b, mod) ==
    IF b = 0 THEN 0
    ELSE (((2 * mul_mod(a, b \div 2, mod)) % mod)
             + (IF b % 2 = 1 THEN a ELSE 0)) % mod

\* power_mod's while loop, its locals being <<result, base, exponent>>
RECURSIVE power_mod_loop(_, _)
power_mod_loop(locals, mod) ==
    IF locals[3] > 0
    THEN power_mod_loop(<<IF locals[3] % 2 = 1
                          THEN mul_mod(locals[1], locals[2], mod)
                          ELSE locals[1],
                          mul_mod(locals[2], locals[2], mod),
                          locals[3] \div 2>>, mod)
    ELSE locals[1]

power_mod(base, exponent, mod) ==
    power_mod_loop(<<1, base % mod, exponent>>, mod)

\* the loop for (r = 1; r < s; r++) from r on: cont_outer at its end
RECURSIVE squarings(_, _, _, _)
squarings(x, r, s, n) ==
    IF r < s
    THEN (IF power_mod(x, 2, n) = n - 1 THEN 1
          ELSE squarings(power_mod(x, 2, n), r + 1, s, n))
    ELSE 0

\* the loop over the bases from i on, with n - 1 = 2^s * d
RECURSIVE bases(_, _, _, _)
RECURSIVE base_passes(_, _, _, _, _)
bases(n, d, s, i) ==
    IF i < Len(miller_rabin_base)
    THEN (IF miller_rabin_base[i + 1] >= n THEN bases(n, d, s, i + 1)
          ELSE base_passes(n, d, s, i, power_mod(miller_rabin_base[i + 1], d, n)))
    ELSE 1

\* what the pass of base i does with x = a^d mod n
base_passes(n, d, s, i, x) ==
    IF x = 1 \/ x = n - 1 THEN bases(n, d, s, i + 1)
    ELSE IF squarings(x, 1, s, n) = 1 THEN bases(n, d, s, i + 1)
    ELSE 0

\* the loop while (d % 2 == 0): then the bases
RECURSIVE halvings(_, _, _)
halvings(n, d, s) ==
    IF d % 2 = 0 THEN halvings(n, d \div 2, s + 1) ELSE bases(n, d, s, 0)

miller_rabin(n) ==
    IF n = 2 \/ n = 3 THEN 1
    ELSE IF n <= 1 \/ n % 2 = 0 THEN 0
    ELSE halvings(n, n - 1, 0)

\* n has no divisor p with 1 < p and p * p <= n
TrialDivision(n) ==
    n >= 2 /\ \A p \in 2..LastRoot(n, 1, 2^(MAX_POWER \div 2 + 1)) : n % p # 0

\* Carmichael numbers, strong pseudoprimes to the base 2, to the bases 2 and 3,
\* to the bases 2, 3 and 5, and the numbers just below 2^16 and 2^30
HardCandidates ==
    {561, 1105, 1729, 2047, 3277, 4033, 4681, 8321, 1373653, 25326001,
     65521, 65535, 65537, 1073741789, 1073741821, 1073741823}

Candidates == 0..MaxCandidate \cup HardCandidates

\* miller_rabin(n) or next_prime(n) is called
InitPrimes ==
    /\ InitTable({"applied"}, {DefaultArgs("LINEAR")}, 0)
    /\ walk = NoWalk
    /\ scan = NoScan
    /\ overflow = "wraps"
    /\ tp = NoProblem
    /\ \/ \E n \in Candidates :
             primes = [fn |-> "miller_rabin", n |-> n, num |-> n,
                       is_prime |-> 0, pc |-> "called", ret |-> 0]
       \/ \E n \in 0..MaxCandidate :
             primes = [fn |-> "next_prime", n |-> n, num |-> n,
                       is_prime |-> 0, pc |-> "called", ret |-> 0]

Tested(p) ==
    /\ primes.pc = "called"
    /\ primes' = p
    /\ UNCHANGED <<self, build, status, last, present, removed, budget,
                   teardown, walk, scan, tp, overflow>>

MillerRabin ==
    /\ primes.fn = "miller_rabin"
    /\ Tested([primes EXCEPT !.ret = miller_rabin(primes.n),
                             !.pc = "returned"])

\* is_prime = miller_rabin(num); num++; then, once is_prime, return num--,
\* whose value is num
next_prime(p, is_prime) ==
    [p EXCEPT !.is_prime = is_prime,
              !.num = @ + 1,
              !.ret = IF is_prime = 0 THEN @ ELSE p.num + 1,
              !.pc = IF is_prime = 0 THEN @ ELSE "returned"]

\* one pass of the do-while of next_prime
NextPrime ==
    /\ primes.fn = "next_prime"
    /\ Tested(next_prime(primes, miller_rabin(primes.num)))

NextPrimes == MillerRabin \/ NextPrime

SpecPrimes == InitPrimes /\ [][NextPrimes]_vars

\* C39: miller_rabin(n) returns 1 if n is prime and 0 if it is not, as trial
\* division tells, with the witnesses 2, 3, 5, 7, 11, 13, 17, 19, 31, 37.
MillerRabinDecides ==
    /\ primes.fn = "miller_rabin" /\ primes.pc = "returned"
           => (primes.ret = 1) = TrialDivision(primes.n)
    /\ primes.fn = "miller_rabin" => primes.ret \in {0, 1}

\* the composite 2047, which passes the test of the base 2 alone, is rejected
MillerRabinWitness ==
    /\ primes.fn = "miller_rabin"
    /\ primes.pc = "returned"
    /\ primes.n = 2047
    /\ primes.ret = 0

\* C40: next_prime(n) of the hash-table source returns the smallest prime p
\* with p >= n, so n itself when n is prime.
NextPrimeIsLeast ==
    primes.fn = "next_prime" /\ primes.pc = "returned"
        => /\ primes.ret >= primes.n
           /\ TrialDivision(primes.ret)
           /\ \A q \in primes.n..(primes.ret - 1) : ~TrialDivision(q)

====
